---------------------------- MODULE Spec2Model ----------------------------
(***************************************************************************)
(* Model of yagi/src/idasymbol.cc: the IDA-backed symbol database of Yagi. *)
(*                                                                         *)
(* Two specifications share the module:                                    *)
(*   Spec      - IdaSymbolInfo / IdaFunctionSymbolInfo::findStackVar       *)
(*               queried against a live database whose function table      *)
(*               changes under the symbol object;                          *)
(*   SpecStore - the netnode-backed register-variable and type records of  *)
(*               IdaFunctionSymbolInfo.                                    *)
(*                                                                         *)
(* Strings are sequences of one-character strings, so that substr, find,   *)
(* concatenation and comparison are computed as the code computes them.    *)
(* All strings are C strings (no embedded NUL): the IDA API takes char*.   *)
(* The model fixes the 64-bit build (ea_t, asize_t are 64 bits wide).      *)
(***************************************************************************)
EXTENDS Integers, Sequences, FiniteSets, TLC

VARIABLES
    funcs,      \* database: the defined functions, records [start_ea, end_ea]
    sym,        \* the IdaSymbolInfo object held by the caller: [m_ea, m_name], or NoSymbol
    call,       \* the last call on the symbol: its collaborator inputs and its result
    store,      \* node store: netnode name -> value string (<<>> when the node has no value)
    saved,      \* history: per (namespace, function, variable) the last string handed to a save
    scall,      \* the last call on the store: operation, key triple and result
    nops        \* number of store operations performed

vars == <<funcs, sym, call, store, saved, scall, nops>>

-----------------------------------------------------------------------------
(* Strings *)

EmptyStr == <<>>

S_v        == <<"v">>
S_eax      == <<"e", "a", "x">>
S_ebx      == <<"e", "b", "x">>
S_int      == <<"i", "n", "t">>
S_charp    == <<"c", "h", "a", "r", " ", "*">>
S_garbage  == <<"?", "?">>
S_regtypev == <<"y", "a", "g", "i", "r", "e", "g", ".", "v",
                ".", "y", "a", "g", "i", "t", "y", "p", "e", ".", "v">>

\* s.substr(pos, n)
Substr(s, pos, n) ==
    SubSeq(s, pos + 1, IF pos + n > Len(s) THEN Len(s) ELSE pos + n)

\* s.substr(pos)
SubstrFrom(s, pos) == SubSeq(s, pos + 1, Len(s))

Npos == -1

\* std::optional<std::string>: std::nullopt, or a string
None == [some |-> FALSE, val |-> EmptyStr]
Some(v) == [some |-> TRUE, val |-> v]

\* s.find(c): index of the first occurrence of character c, or npos
Find(s, c) ==
    IF \E i \in 1..Len(s) : s[i] = c
    THEN (CHOOSE i \in 1..Len(s) : s[i] = c /\ \A j \in 1..(i - 1) : s[j] # c) - 1
    ELSE Npos

-----------------------------------------------------------------------------
(* 64-bit unsigned arithmetic *)

\* A 64-bit unsigned value (uint64_t, ea_t, asize_t) is a sequence of four
\* 16-bit limbs, least significant first.
LimbBase == 2 ^ 16

RECURSIVE AddLimbs(_, _, _, _)
AddLimbs(a, b, i, carry) ==
    IF i > Len(a) THEN <<>>
    ELSE LET t == a[i] + b[i] + carry
         IN  <<t % LimbBase>> \o AddLimbs(a, b, i + 1, t \div LimbBase)

RECURSIVE SubLimbs(_, _, _, _)
SubLimbs(a, b, i, borrow) ==
    IF i > Len(a) THEN <<>>
    ELSE LET d == a[i] - b[i] - borrow
         IN  IF d < 0 THEN <<d + LimbBase>> \o SubLimbs(a, b, i + 1, 1)
             ELSE <<d>> \o SubLimbs(a, b, i + 1, 0)

\* a + b and a - b in 64-bit unsigned arithmetic
Add64(a, b) == AddLimbs(a, b, 1, 0)
Sub64(a, b) == SubLimbs(a, b, 1, 0)

\* (uint32_t)a
Trunc32(a) == SubSeq(a, 1, 2)

\* a ushort widened to 64 bits
U16(v) == <<v, 0, 0, 0>>

W_0        == <<0, 0, 0, 0>>
W_8        == <<8, 0, 0, 0>>
W_16       == <<16, 0, 0, 0>>
W_4G_plus8 == <<8, 0, 1, 0>>                    \* 0x0000000100000008
W_4G_less8 == <<65528, 65535, 0, 0>>            \* 0x00000000fffffff8
W_neg8     == <<65528, 65535, 65535, 65535>>    \* 0xfffffffffffffff8, -8

-----------------------------------------------------------------------------
(* Database: functions, and the symbol objects built from it *)

S_foo      == <<"f", "o", "o">>
S_sub1     == <<"s", "u", "b", "_", "1">>
S_impfoo   == <<"_", "_", "i", "m", "p", "_", "f", "o", "o">>
S_imp      == <<"_", "_", "i", "m", "p", "_">>
S_intfoo   == <<"i", "n", "t", " ", "f", "o", "o", "(", "i", "n", "t", ")">>
S_FooBarInt == <<"F", "o", "o", ":", ":", "b", "a", "r", "(", "i", "n", "t", ")">>
S_bar      == <<"b", "a", "r">>
S_data     == <<".", "d", "a", "t", "a">>
S_text     == <<".", "t", "e", "x", "t">>

MaxEa == 2
Addresses == 0..MaxEa

\* func_t: the range of a function, its frame sizes and (get_frame) the
\* members of its frame, each [name, soff]
Func(start_ea, end_ea, frsize, frregs, frame) ==
    [start_ea |-> start_ea, end_ea |-> end_ea, frsize |-> frsize, frregs |-> frregs,
     frame |-> frame]

NullFunc == Func(-1, -1, W_0, 0, <<>>)

\* get_func(ea): the function whose range holds ea, or nullptr
get_func(fs, ea) ==
    IF \E f \in fs : f.start_ea <= ea /\ ea < f.end_ea
    THEN CHOOSE f \in fs : f.start_ea <= ea /\ ea < f.end_ea
    ELSE NullFunc

\* the user defines a function over [start_ea, end_ea), with an empty frame
add_func(start_ea, end_ea) ==
    /\ start_ea < end_ea
    /\ \A f \in funcs : end_ea <= f.start_ea \/ f.end_ea <= start_ea
    /\ funcs' = funcs \cup {Func(start_ea, end_ea, W_0, 0, <<>>)}
    /\ UNCHANGED <<sym, call, store, saved, scall, nops>>

\* the user deletes a function
del_func(f) ==
    /\ f \in funcs
    /\ funcs' = funcs \ {f}
    /\ UNCHANGED <<sym, call, store, saved, scall, nops>>

NoSymbol == [m_ea |-> 0, m_name |-> EmptyStr, ctor |-> "none"]

\* IdaSymbolInfoFactory::find(ea), the database naming ea as name
find(ea, name) ==
    /\ IF Len(name) = 0
       THEN /\ call' = [op |-> "find", ret |-> "nullopt"]
            /\ UNCHANGED sym
       ELSE /\ sym' = [m_ea |-> ea, m_name |-> name, ctor |-> "find"]
            /\ call' = [op |-> "find", ret |-> "symbol"]
    /\ UNCHANGED <<funcs, store, saved, scall, nops>>

\* split(s, ' ').back(): the last space-delimited token of s
RECURSIVE LastToken(_)
LastToken(s) ==
    IF Find(s, " ") = Npos THEN s ELSE LastToken(SubstrFrom(s, Find(s, " ") + 1))

\* IdaSymbolInfoFactory::find_function(ea), the database giving idaName as
\* the short name of the function
find_function(ea, idaName) ==
    LET idaFunc == get_func(funcs, ea)
        beginParameter == Find(idaName, "(")
        functionName ==
            LastToken(IF beginParameter = Npos THEN idaName
                      ELSE Substr(idaName, 0, beginParameter))
    IN  /\ IF idaFunc = NullFunc
           THEN /\ call' = [op |-> "find_function", ret |-> "nullopt"]
                /\ UNCHANGED sym
           ELSE /\ sym' = [m_ea |-> idaFunc.start_ea, m_name |-> functionName,
                           ctor |-> "find_function"]
                /\ call' = [op |-> "find_function", ret |-> "symbol"]
        /\ UNCHANGED <<funcs, store, saved, scall, nops>>

\* isFunction with the entry-address comparison left out
isFunctionAnywhere(fs, s) == get_func(fs, s.m_ea) # NullFunc

\* IdaSymbolInfo::isFunction
isFunction(fs, s) ==
    LET idaFunc == get_func(fs, s.m_ea)
    IN  idaFunc # NullFunc /\ idaFunc.start_ea = s.m_ea

\* IdaSymbolInfo::getFunctionSize: the size, or SymbolIsNotAFunction thrown
getFunctionSize(fs, s) ==
    LET function == get_func(fs, s.m_ea)
    IN  IF function = NullFunc \/ function.start_ea # s.m_ea
        THEN [threw |-> TRUE, val |-> 0]
        ELSE [threw |-> FALSE, val |-> function.end_ea - function.start_ea]

CallIsFunction ==
    /\ sym # NoSymbol
    /\ call' = [op |-> "isFunction", self |-> sym, funcs |-> funcs, ret |-> isFunction(funcs, sym)]
    /\ UNCHANGED <<funcs, sym, store, saved, scall, nops>>

CallGetFunctionSize ==
    /\ sym # NoSymbol
    /\ call' = [op |-> "getFunctionSize", self |-> sym, funcs |-> funcs,
                ret |-> getFunctionSize(funcs, sym)]
    /\ UNCHANGED <<funcs, sym, store, saved, scall, nops>>

-----------------------------------------------------------------------------
(* IdaSymbolInfo: classification and naming *)

IMPORT_PREFIX == <<"_", "_", "i", "m", "p", "_">>

\* an import entry that has an ordinal and no name (name == nullptr)
NullName == <<"nullptr">>

\* an import module: its exported-name table, or one whose enumeration fails
M_empty  == [err |-> FALSE, names |-> <<>>]
M_foo    == [err |-> FALSE, names |-> <<S_bar, S_foo>>]
M_ordsub == [err |-> FALSE, names |-> <<NullName, S_sub1>>]
M_err    == [err |-> TRUE, names |-> <<>>]

\* enum_import_names(i, callback, &importName): -1 on error, the callback's 0
\* when it stopped at a name equal to importName, 1 when it ran to the end
enum_import_names(module, importName) ==
    IF module.err THEN -1
    ELSE IF \E k \in 1..Len(module.names) :
                module.names[k] # NullName /\ importName = module.names[k]
         THEN 0
         ELSE 1

\* IdaSymbolInfo::isImport, modules being the import modules of the database
isImport(s, modules) ==
    LET importName ==
            IF Len(s.m_name) > 6 /\ Substr(s.m_name, 0, 6) = IMPORT_PREFIX
            THEN Substr(s.m_name, 6, Len(s.m_name) - 6)
            ELSE s.m_name
    IN  \E i \in 1..Len(modules) :
            LET found == enum_import_names(modules[i], importName)
            IN  found # -1 /\ found # 1

CodeRef(type) == [iscode |-> TRUE, type |-> type]
DataRef(type) == [iscode |-> FALSE, type |-> type]

\* the loop of isLabel that stops at the first reference, whatever it is
isLabelFirstOnly(xrefs, i) ==
    i <= Len(xrefs) /\ xrefs[i].iscode /\ xrefs[i].type = "fl_JN"

\* IdaSymbolInfo::isLabel: the loop over the references to the address, from
\* the i-th on
RECURSIVE isLabelFrom(_, _)
isLabelFrom(xrefs, i) ==
    IF i > Len(xrefs) THEN FALSE
    ELSE IF ~xrefs[i].iscode THEN FALSE
    ELSE IF xrefs[i].type # "fl_JN" THEN isLabelFrom(xrefs, i + 1)
    ELSE TRUE

isLabel(xrefs) == isLabelFrom(xrefs, 1)

SEGPERM_EXEC == 1
SEGPERM_READ == 4

NoSeg == [null |-> TRUE, name |-> EmptyStr, perm |-> 0]
Seg(name, perm) == [null |-> FALSE, name |-> name, perm |-> perm]

\* isReadOnly without the ".data" rule
isReadOnlyPermOnly(seg) ==
    seg.perm = SEGPERM_READ \/ seg.perm = SEGPERM_READ + SEGPERM_EXEC

\* IdaSymbolInfo::isReadOnly on an address that lies in segment seg
isReadOnly(seg) ==
    IF seg.name = S_data THEN TRUE
    ELSE seg.perm = SEGPERM_READ \/ seg.perm = SEGPERM_READ + SEGPERM_EXEC

\* cleanup_name: no cleaned form, or the cleaned name
NoClean == [ok |-> FALSE, name |-> EmptyStr]
Clean(name) == [ok |-> TRUE, name |-> name]

\* getName that cleans placeholder names too
resolveNameNoPlaceholder(s, cleaned, demangled) ==
    LET pname == IF ~cleaned.ok THEN s.m_name ELSE cleaned.name
        pp == IF Find(demangled, "(") = Npos THEN Len(demangled) ELSE Find(demangled, "(")
    IN  IF demangled # EmptyStr THEN Substr(demangled, 0, pp) ELSE pname

\* IdaSymbolInfo::getName up to the import mark: cleaned is what cleanup_name
\* gives for the raw name, demangled what demangle_name gives for the name
\* kept ("" when it does not demangle)
resolveName(s, cleaned, demangled) ==
    LET pname ==
            IF Substr(s.m_name, 0, 4) = <<"s", "u", "b", "_">> \/ ~cleaned.ok
            THEN s.m_name
            ELSE cleaned.name
        idaName == demangled
        pp == IF Find(idaName, "(") = Npos THEN Len(idaName) ELSE Find(idaName, "(")
    IN  IF idaName # EmptyStr THEN Substr(idaName, 0, pp) ELSE pname

\* IdaSymbolInfo::getName
getName(s, cleaned, demangled, modules) ==
    IF isImport(s, modules)
    THEN IMPORT_PREFIX \o resolveName(s, cleaned, demangled)
    ELSE resolveName(s, cleaned, demangled)

RawNames    == {S_foo, S_sub1, S_impfoo, S_imp}
ShortNames  == {S_intfoo, S_sub1}
ImportTables == {<<>>, <<M_foo>>, <<M_err, M_foo>>, <<M_ordsub, M_empty>>, <<M_err>>}
CleanOut    == {NoClean, Clean(S_foo), Clean(S_bar)}
DemangleOut == {EmptyStr, S_FooBarInt, S_bar}
XrefKinds   == {CodeRef("fl_JN"), CodeRef("fl_CN"), CodeRef("fl_F"), DataRef("dr_R")}
SegNames    == {S_data, S_text}
Perms       == 0..7

MaxXrefs == 2

XrefSeqs == UNION {[1..n -> XrefKinds] : n \in 0..MaxXrefs}

CallIsImport(modules) ==
    /\ sym # NoSymbol
    /\ call' = [op |-> "isImport", self |-> sym, modules |-> modules, ret |-> isImport(sym, modules)]
    /\ UNCHANGED <<funcs, sym, store, saved, scall, nops>>

CallIsLabel(xrefs) ==
    /\ sym # NoSymbol
    /\ call' = [op |-> "isLabel", self |-> sym, xrefs |-> xrefs, ret |-> isLabel(xrefs)]
    /\ UNCHANGED <<funcs, sym, store, saved, scall, nops>>

\* when the address lies in no segment, getseg gives nullptr and seg->perm is
\* read through it: the call crashes or returns either answer
CallIsReadOnly(seg) ==
    /\ sym # NoSymbol
    /\ IF seg.null
       THEN \E crashed \in BOOLEAN, val \in BOOLEAN :
                call' = [op |-> "isReadOnly", self |-> sym, seg |-> seg,
                         ret |-> [crashed |-> crashed, val |-> val /\ ~crashed]]
       ELSE call' = [op |-> "isReadOnly", self |-> sym, seg |-> seg,
                     ret |-> [crashed |-> FALSE, val |-> isReadOnly(seg)]]
    /\ UNCHANGED <<funcs, sym, store, saved, scall, nops>>

CallGetName(cleaned, demangled, modules) ==
    /\ sym # NoSymbol
    /\ call' = [op |-> "getName", self |-> sym, cleaned |-> cleaned,
                demangled |-> demangled, modules |-> modules,
                ret |-> getName(sym, cleaned, demangled, modules)]
    /\ UNCHANGED <<funcs, sym, store, saved, scall, nops>>

-----------------------------------------------------------------------------
(* IdaFunctionSymbolInfo::findStackVar *)

S_var  == <<"v", "a", "r">>
S_Fvar == <<"F", ".", "v", "a", "r">>
S_Fab  == <<"F", ".", "a", ".", "b">>
S_ab   == <<"a", ".", "b">>

\* the comparison of findStackVar with the 32-bit case taken at every width
OffsetMatchesAnyWidth(sofset, offset, addrSize) ==
    sofset = offset \/ Trunc32(sofset) = Trunc32(offset)

\* sofset == offset || (addrSize == 4 && ((uint32_t)sofset == (uint32_t)offset))
OffsetMatches(sofset, offset, addrSize) ==
    sofset = offset \/ (addrSize = 4 /\ Trunc32(sofset) = Trunc32(offset))

\* the name returned for a matching member
MemberName(name) ==
    LET pp == Find(name, ".")
    IN  IF pp # Npos THEN SubstrFrom(name, pp + 1) ELSE name

\* IdaFunctionSymbolInfo::findStackVar: the loop over the frame members, from
\* the i-th on
RECURSIVE findStackVarFrom(_, _, _, _)
findStackVarFrom(idaFunc, offset, addrSize, i) ==
    LET frame == idaFunc.frame
    IN  IF i > Len(frame) THEN None
        ELSE LET member == frame[i]
                 name == member.name
                 sofset == Sub64(member.soff, Add64(idaFunc.frsize, U16(idaFunc.frregs)))
             IN  IF OffsetMatches(sofset, offset, addrSize)
                 THEN Some(MemberName(name))
                 ELSE findStackVarFrom(idaFunc, offset, addrSize, i + 1)

findStackVar(idaFunc, offset, addrSize) == findStackVarFrom(idaFunc, offset, addrSize, 1)

MaxMembers == 2

Members      == [name : {S_var, S_Fvar, S_Fab}, soff : {W_8, W_16, W_4G_plus8}]
Frames       == UNION {[1..n -> Members] : n \in 0..MaxMembers}
FrameSizes   == {W_16}
SavedRegs    == {0, 8}
FrameOffsets == {W_0, W_neg8, W_4G_less8}
AddrSizes    == {4, 8}

\* when the symbol's address lies in no function any more, get_func gives
\* nullptr and the frame is read through it: the call crashes or finds nothing
CallFindStackVar(offset, addrSize) ==
    /\ sym # NoSymbol
    /\ LET idaFunc == get_func(funcs, sym.m_ea)
           inputs == [op |-> "findStackVar", self |-> sym, idaFunc |-> idaFunc,
                      offset |-> offset, addrSize |-> addrSize]
       IN  IF idaFunc = NullFunc
           THEN \E crashed \in BOOLEAN :
                    call' = inputs @@ [crashed |-> crashed, ret |-> None]
           ELSE call' = inputs @@
                    [crashed |-> FALSE, ret |-> findStackVar(idaFunc, offset, addrSize)]
    /\ UNCHANGED <<funcs, sym, store, saved, scall, nops>>

-----------------------------------------------------------------------------
(* Persistent node store: register variables and type annotations *)

HexDigit(d) ==
    <<"0", "1", "2", "3", "4", "5", "6", "7", "8", "9", "a", "b", "c", "d", "e", "f">>[d + 1]

RECURSIVE HexDigits(_)
HexDigits(n) ==
    IF n < 16 THEN <<HexDigit(n)>> ELSE HexDigits(n \div 16) \o <<HexDigit(n % 16)>>

\* to_hex(address): the address in hexadecimal
to_hex(ea) == HexDigits(ea)

\* a regvar key that leaves the function address out
RegVarKeyNoAddress(ea, name) ==
    <<"$", " ">> \o <<".", "y", "a", "g", "i", "r", "e", "g", ".">> \o name

\* "$ " << to_hex(address) << ".yagireg." << name
RegVarKey(ea, name) ==
    <<"$", " ">> \o to_hex(ea) \o <<".", "y", "a", "g", "i", "r", "e", "g", ".">> \o name

\* a type key composed under the regvar namespace
SymbolTypeKeyAsRegVar(ea, name) ==
    <<"$", " ">> \o to_hex(ea) \o <<".", "y", "a", "g", "i", "r", "e", "g", ".">> \o name

\* "$ " << to_hex(address) << ".yagitype." << name
SymbolTypeKey(ea, name) ==
    <<"$", " ">> \o to_hex(ea) \o <<".", "y", "a", "g", "i", "t", "y", "p", "e", ".">> \o name

\* netnode n(key, 0, true): opens the node named key, creating it when absent
Netnode(st, key) ==
    IF key \in DOMAIN st THEN st ELSE st @@ (key :> EmptyStr)

\* n.set(value) that keeps a value the node already has
NetnodeSetKeepFirst(st, key, value) ==
    IF Len(st[key]) = 0 THEN [st EXCEPT ![key] = value] ELSE st

\* n.set(value)
NetnodeSet(st, key, value) == [st EXCEPT ![key] = value]

\* n.valstr(&res): the node's value, empty when it has none
Valstr(st, key) == st[key]

\* IdaTypeInfoFactory().build_decl(decl): the parsed descriptor, or a parse failure
WellFormedDecls == {S_int, S_charp}
ParseFailure == [kind |-> "ParseFailure", decl |-> EmptyStr]
build_decl(decl) ==
    IF decl \in WellFormedDecls THEN [kind |-> "type", decl |-> decl] ELSE ParseFailure
NoType == [kind |-> "nullopt", decl |-> EmptyStr]

\* TypeInfo::getName(): the canonical declaration string of a type object
getName_TypeInfo(type) == type.name

Functions  == {1, 26}
VarNames   == {S_v, S_regtypev}
Values     == {EmptyStr, S_eax, S_ebx}
Types      == {[name |-> S_int], [name |-> S_charp], [name |-> S_garbage]}
Locations  == {"stack", "register"}
Namespaces == {"regvar", "type"}
Triples    == Namespaces \X Functions \X VarNames

MaxOps == 3

NeverSaved == [written |-> FALSE, val |-> EmptyStr, overwritten |-> FALSE, prev |-> EmptyStr]
NoCall == [op |-> "none", fn |-> 0, name |-> EmptyStr, ret |-> None]

\* history of one key triple after a save of value
Record(h, value) ==
    [written |-> TRUE, val |-> value, overwritten |-> h.written, prev |-> h.val]

\* result of findRegVar against a store in which the node is open
findRegVarResult(st, fn, name) ==
    LET res == Valstr(Netnode(st, RegVarKey(fn, name)), RegVarKey(fn, name))
    IN  IF Len(res) = 0 THEN None ELSE Some(res)

findSymbolTypeResult(st, fn, name) ==
    LET res == Valstr(Netnode(st, SymbolTypeKey(fn, name)), SymbolTypeKey(fn, name))
    IN  IF Len(res) = 0 THEN NoType ELSE build_decl(res)

findRegVar(fn, name) ==
    /\ nops < MaxOps
    /\ store' = Netnode(store, RegVarKey(fn, name))
    /\ scall' = [op |-> "findRegVar", fn |-> fn, name |-> name,
                 ret |-> findRegVarResult(store, fn, name)]
    /\ nops' = nops + 1
    /\ UNCHANGED <<saved, funcs, sym, call>>

saveRegVar(fn, name, value) ==
    /\ nops < MaxOps
    /\ store' = NetnodeSet(Netnode(store, RegVarKey(fn, name)), RegVarKey(fn, name), value)
    /\ saved' = [saved EXCEPT ![<<"regvar", fn, name>>] = Record(@, value)]
    /\ scall' = [op |-> "saveRegVar", fn |-> fn, name |-> name, ret |-> None]
    /\ nops' = nops + 1
    /\ UNCHANGED <<funcs, sym, call>>

saveSymbolType(fn, name, newType, loc) ==
    /\ nops < MaxOps
    /\ store' = NetnodeSet(Netnode(store, SymbolTypeKey(fn, name)), SymbolTypeKey(fn, name),
                           getName_TypeInfo(newType))
    /\ saved' = [saved EXCEPT ![<<"type", fn, name>>] = Record(@, getName_TypeInfo(newType))]
    /\ scall' = [op |-> "saveSymbolType", fn |-> fn, name |-> name, ret |-> None]
    /\ nops' = nops + 1
    /\ UNCHANGED <<funcs, sym, call>>

findSymbolType(fn, name) ==
    /\ nops < MaxOps
    /\ store' = Netnode(store, SymbolTypeKey(fn, name))
    /\ scall' = [op |-> "findSymbolType", fn |-> fn, name |-> name,
                 ret |-> findSymbolTypeResult(store, fn, name)]
    /\ nops' = nops + 1
    /\ UNCHANGED <<saved, funcs, sym, call>>

Init ==
    /\ funcs = {}
    /\ sym = NoSymbol
    /\ call = [op |-> "none"]
    /\ store = << >>
    /\ saved = [t \in Triples |-> NeverSaved]
    /\ scall = NoCall
    /\ nops = 0

\* the function table changing under symbol objects that are queried for it
Next ==
    \/ \E a \in Addresses, b \in 1..(MaxEa + 1) : add_func(a, b)
    \/ \E f \in funcs : del_func(f)
    \/ \E ea \in Addresses, name \in RawNames \cup {EmptyStr} : find(ea, name)
    \/ \E ea \in Addresses, idaName \in ShortNames : find_function(ea, idaName)
    \/ CallIsFunction
    \/ CallGetFunctionSize

Spec == Init /\ [][Next]_vars

\* classification and naming of symbols found by address
NextName ==
    \/ \E ea \in Addresses, name \in RawNames \cup {EmptyStr} : find(ea, name)
    \/ \E modules \in ImportTables : CallIsImport(modules)
    \/ \E xrefs \in XrefSeqs : CallIsLabel(xrefs)
    \/ \E seg \in {NoSeg} \cup {Seg(n, p) : n \in SegNames, p \in Perms} : CallIsReadOnly(seg)
    \/ \E cleaned \in CleanOut, demangled \in DemangleOut, modules \in ImportTables :
            CallGetName(cleaned, demangled, modules)

SpecName == Init /\ [][NextName]_vars

\* a function symbol built by find_function on a function with some frame
InitFrame ==
    /\ \E frame \in Frames, frsize \in FrameSizes, frregs \in SavedRegs :
            funcs = {Func(1, 2, frsize, frregs, frame)}
    /\ sym = [m_ea |-> 1, m_name |-> S_foo, ctor |-> "find_function"]
    /\ call = [op |-> "find_function", ret |-> "symbol"]
    /\ store = << >>
    /\ saved = [t \in Triples |-> NeverSaved]
    /\ scall = NoCall
    /\ nops = 0

NextFrame ==
    \/ \E f \in funcs : del_func(f)
    \/ \E offset \in FrameOffsets, addrSize \in AddrSizes : CallFindStackVar(offset, addrSize)

SpecFrame == InitFrame /\ [][NextFrame]_vars

NextStore ==
    \/ \E fn \in Functions, name \in VarNames : findRegVar(fn, name)
    \/ \E fn \in Functions, name \in VarNames, value \in Values : saveRegVar(fn, name, value)
    \/ \E fn \in Functions, name \in VarNames, type \in Types, loc \in Locations :
            saveSymbolType(fn, name, type, loc)
    \/ \E fn \in Functions, name \in VarNames : findSymbolType(fn, name)

SpecStore == Init /\ [][NextStore]_vars

-----------------------------------------------------------------------------
(* Properties of IdaSymbolInfo (C4 under Spec, C5 to C8 under SpecName) *)

\* C4: getFunctionSize throws SymbolIsNotAFunction exactly when isFunction()
\* is false in the same database state, and otherwise returns end - start of
\* the function whose entry is the symbol's address; isFunction() is true iff
\* the address is exactly some function's entry. Also for a stale symbol.
C4_FunctionSizeIffEntry ==
    /\ call.op = "isFunction" =>
            (call.ret <=> \E f \in call.funcs : f.start_ea = call.self.m_ea)
    /\ call.op = "getFunctionSize" =>
        /\ call.ret.threw <=> ~isFunction(call.funcs, call.self)
        /\ call.ret.threw <=> ~(\E f \in call.funcs : f.start_ea = call.self.m_ea)
        /\ ~call.ret.threw =>
                \E f \in call.funcs : /\ f.start_ea = call.self.m_ea
                                      /\ call.ret.val = f.end_ea - f.start_ea

\* C4 witness: getFunctionSize threw on a symbol that find_function built at
\* a function entry, whose address now lies strictly inside another function.
C4_Witness ==
    /\ call.op = "getFunctionSize"
    /\ call.self.ctor = "find_function"
    /\ call.ret.threw
    /\ \E f \in call.funcs : f.start_ea < call.self.m_ea /\ call.self.m_ea < f.end_ea

\* C5 (as stated): isLabel() = true implies that the first reference to the
\* address is a code reference of direct-jump kind.
C5_LabelImpliesFirstIsJump ==
    (call.op = "isLabel" /\ call.ret) =>
        (Len(call.xrefs) >= 1 /\ call.xrefs[1] = CodeRef("fl_JN"))

\* C5 (amended): isLabel() is true iff some reference is a code reference of
\* direct-jump kind and every reference before it is a code reference; so it
\* is false when the first reference is a data reference, true when the first
\* reference is a direct jump, and a call first does not decide it.
C5_LabelIffJumpBeforeData ==
    call.op = "isLabel" =>
        LET xs == call.xrefs
        IN  /\ call.ret <=> \E i \in 1..Len(xs) :
                                /\ xs[i] = CodeRef("fl_JN")
                                /\ \A j \in 1..(i - 1) : xs[j].iscode
            /\ (Len(xs) >= 1 /\ ~xs[1].iscode) => ~call.ret
            /\ (Len(xs) >= 1 /\ xs[1] = CodeRef("fl_JN")) => call.ret

\* C5 witness: isLabel returned true on references (call, direct jump).
C5_Witness ==
    /\ call.op = "isLabel"
    /\ call.xrefs = <<CodeRef("fl_CN"), CodeRef("fl_JN")>>
    /\ call.ret

IsPlaceholder(name) == Len(name) >= 4 /\ SubSeq(name, 1, 4) = <<"s", "u", "b", "_">>

\* the part of s before its first "("
BeforeParen(s) ==
    CHOOSE p \in {SubSeq(s, 1, n) : n \in 0..Len(s)} :
        /\ \A k \in 1..Len(p) : p[k] # "("
        /\ Len(p) = Len(s) \/ s[Len(p) + 1] = "("

\* C6 (as stated): getName on a raw name starting with "sub_" returns the raw
\* name, or the import prefix followed by it, whatever cleanup and the
\* demangler do.
C6_PlaceholderUnchanged ==
    (call.op = "getName" /\ IsPlaceholder(call.self.m_name)) =>
        call.ret \in {call.self.m_name, IMPORT_PREFIX \o call.self.m_name}

\* C6 (amended): getName on a raw name starting with "sub_" never uses the
\* cleaned form; when the demangler yields nothing it returns the raw name,
\* with the import prefix if isImport(); when the demangler yields a name it
\* returns that name cut at its first "(", with the import prefix if isImport().
C6_PlaceholderSkipsCleanupOnly ==
    (call.op = "getName" /\ IsPlaceholder(call.self.m_name)) =>
        LET base == IF call.demangled = EmptyStr THEN call.self.m_name
                    ELSE BeforeParen(call.demangled)
        IN  call.ret = (IF isImport(call.self, call.modules)
                        THEN IMPORT_PREFIX \o base ELSE base)

\* C6 witness: an imported "sub_1", for which cleanup offers "foo" and the
\* demangler nothing, is named "__imp_sub_1".
C6_Witness ==
    /\ call.op = "getName"
    /\ call.self.m_name = S_sub1
    /\ call.cleaned = Clean(S_foo)
    /\ call.demangled = EmptyStr
    /\ call.ret = IMPORT_PREFIX \o S_sub1

HasImportPrefix(s) == Len(s) >= 6 /\ SubSeq(s, 1, 6) = IMPORT_PREFIX

\* C7: whenever isImport() is true, getName() is the import prefix followed
\* exactly once by the resolved name without a prefix, also when the raw name
\* already carries the prefix; whenever isImport() is false getName() adds no
\* prefix.
C7_ImportPrefixExactlyOnce ==
    call.op = "getName" =>
        LET resolved == resolveName(call.self, call.cleaned, call.demangled)
        IN  IF isImport(call.self, call.modules)
            THEN /\ HasImportPrefix(call.ret)
                 /\ ~HasImportPrefix(SubSeq(call.ret, 7, Len(call.ret)))
                 /\ SubSeq(call.ret, 7, Len(call.ret)) =
                        (IF HasImportPrefix(resolved)
                         THEN SubSeq(resolved, 7, Len(resolved)) ELSE resolved)
            ELSE call.ret = resolved

ReadBit(perm)  == (perm \div 4) % 2 = 1
WriteBit(perm) == (perm \div 2) % 2 = 1

\* C8 (as stated): isReadOnly() is true iff the segment is named ".data" or
\* its permission bits have no write bit.
C8_ReadOnlyIffNoWriteBit ==
    (call.op = "isReadOnly" /\ ~call.seg.null) =>
        (call.ret.val <=> (call.seg.name = S_data \/ ~WriteBit(call.seg.perm)))

\* C8 (amended): isReadOnly() is true iff the segment is named ".data" or its
\* permission bits have the read bit and not the write bit (read, or
\* read+execute); true for ".data" with the write bit, false for every other
\* segment with the write bit, false without read and write bits elsewhere.
C8_ReadOnlyIffDataOrReadNoWrite ==
    (call.op = "isReadOnly" /\ ~call.seg.null) =>
        /\ ~call.ret.crashed
        /\ call.ret.val <=>
            (call.seg.name = S_data \/ (ReadBit(call.seg.perm) /\ ~WriteBit(call.seg.perm)))
        /\ (call.seg.name = S_data /\ WriteBit(call.seg.perm)) => call.ret.val
        /\ (call.seg.name # S_data /\ WriteBit(call.seg.perm)) => ~call.ret.val

\* C8 witness: a ".data" segment with read and write permission is read-only.
C8_Witness ==
    /\ call.op = "isReadOnly"
    /\ call.seg = Seg(S_data, 6)
    /\ call.ret.val

-----------------------------------------------------------------------------
(* Properties of findStackVar (checked under SpecFrame) *)

\* name with everything up to and including its first "." removed
AfterFirstDot(name) ==
    IF \E k \in 1..Len(name) : name[k] = "."
    THEN LET k == CHOOSE k \in 1..Len(name) :
                    name[k] = "." /\ \A j \in 1..(k - 1) : name[j] # "."
         IN  SubSeq(name, k + 1, Len(name))
    ELSE name

\* C9: findStackVar(frameOffset, addressWidth) returns the name of the first
\* member, in declared order, whose offset less (frameLocalSize +
\* savedRegisterSize) equals frameOffset exactly or, only when addressWidth is
\* 4, modulo 2^32, with everything through its first "." removed; it returns
\* empty iff no member matches; when addressWidth is not 4, offsets that agree
\* only in their low 32 bits do not match.
C9_FirstMatchingMember ==
    (call.op = "findStackVar" /\ call.idaFunc # NullFunc) =>
        LET frame == call.idaFunc.frame
            target == Add64(call.offset,
                            Add64(call.idaFunc.frsize, U16(call.idaFunc.frregs)))
            Exact(i) == frame[i].soff = target
            Low32(i) == /\ frame[i].soff[1] = target[1]
                        /\ frame[i].soff[2] = target[2]
            Match(i) == Exact(i) \/ (call.addrSize = 4 /\ Low32(i))
        IN  /\ ~call.crashed
            /\ (call.ret = None) <=> ~(\E i \in 1..Len(frame) : Match(i))
            /\ \A i \in 1..Len(frame) :
                    (Match(i) /\ \A j \in 1..(i - 1) : ~Match(j))
                        => call.ret = Some(AfterFirstDot(frame[i].name))
            /\ (call.addrSize # 4 /\ ~(\E i \in 1..Len(frame) : Exact(i)))
                    => call.ret = None

\* C9 witness: on a 32-bit target, offset 0xfffffff8 finds the first member,
\* "F.a.b" at normalized offset -8 (equal modulo 2^32 only), and returns
\* "a.b", although a later member matches exactly.
C9_Witness ==
    /\ call.op = "findStackVar"
    /\ call.addrSize = 4
    /\ call.offset = W_4G_less8
    /\ call.idaFunc = Func(1, 2, W_16, 0,
                           <<[name |-> S_Fab, soff |-> W_8],
                             [name |-> S_var, soff |-> W_4G_plus8]>>)
    /\ call.ret = Some(S_ab)

-----------------------------------------------------------------------------
(* Properties of the node store (checked under SpecStore) *)

KeyOf(t) == IF t[1] = "regvar" THEN RegVarKey(t[2], t[3]) ELSE SymbolTypeKey(t[2], t[3])

\* what a find of triple t returns from store st
ReadBack(st, t) ==
    IF t[1] = "regvar" THEN findRegVarResult(st, t[2], t[3])
    ELSE findSymbolTypeResult(st, t[2], t[3])

\* C1 (as stated): findRegVar(fn, n) returns the value of the most recent
\* saveRegVar(fn, n, v) for every string v, and returns empty if and only if
\* saveRegVar was never called for (fn, n).
C1_RoundTripAnyValue ==
    \A fn \in Functions, name \in VarNames :
        LET h == saved[<<"regvar", fn, name>>]
            r == findRegVarResult(store, fn, name)
        IN  /\ h.written => r = Some(h.val)
            /\ (r = None) <=> ~h.written

\* C1 (amended): findRegVar(fn, n) returns the value v of the most recent
\* saveRegVar(fn, n, v) whenever v is not the empty string, and returns empty
\* if and only if saveRegVar was never called for (fn, n) or its most recent
\* call wrote the empty string; a findRegVar call returns exactly that.
C1_RoundTripNonEmpty ==
    /\ \A fn \in Functions, name \in VarNames :
        LET h == saved[<<"regvar", fn, name>>]
            r == findRegVarResult(store, fn, name)
        IN  /\ (h.written /\ h.val # EmptyStr) => r = Some(h.val)
            /\ (r = None) <=> (~h.written \/ h.val = EmptyStr)
    /\ scall.op = "findRegVar" =>
        LET h == saved[<<"regvar", scall.fn, scall.name>>]
        IN  scall.ret = (IF h.written /\ h.val # EmptyStr THEN Some(h.val) ELSE None)

\* C1 witness: a findRegVar call returned the non-empty value last saved for
\* its key, after that key had been overwritten.
C1_Witness ==
    /\ scall.op = "findRegVar"
    /\ saved[<<"regvar", scall.fn, scall.name>>].overwritten
    /\ saved[<<"regvar", scall.fn, scall.name>>].val = S_ebx
    /\ saved[<<"regvar", scall.fn, scall.name>>].prev = S_eax
    /\ scall.ret = Some(S_ebx)

C3_NodesOnlyFromSaves ==
    DOMAIN store = {KeyOf(t) : t \in {u \in Triples : saved[u].written}}

\* C10: a save to one (namespace, function, variable) triple leaves the value
\* read back for every other triple unchanged; saveRegVar(fn, n, v) never
\* changes findSymbolType(fn, n) and saveSymbolType(fn, n, T) never changes
\* findRegVar(fn, n).
C10_SavesDoNotInterfere ==
    [][ scall'.op \in {"saveRegVar", "saveSymbolType"} =>
            LET u == <<IF scall'.op = "saveRegVar" THEN "regvar" ELSE "type",
                       scall'.fn, scall'.name>>
            IN  \A t \in Triples \ {u} : ReadBack(store', t) = ReadBack(store, t)
      ]_vars

\* C10 witness: saveRegVar has just written (fn, n), n containing "yagireg."
\* and ".yagitype.", while the type record of the same (fn, n) holds a value
\* and the regvar record of the same name in another function holds another.
C10_Witness ==
    /\ scall.op = "saveRegVar"
    /\ scall.name = S_regtypev
    /\ saved[<<"regvar", scall.fn, scall.name>>].val = S_eax
    /\ saved[<<"type", scall.fn, scall.name>>].written
    /\ findSymbolTypeResult(store, scall.fn, scall.name)
            = build_decl(saved[<<"type", scall.fn, scall.name>>].val)
    /\ \E g \in Functions \ {scall.fn} :
        /\ saved[<<"regvar", g, S_regtypev>>].val = S_ebx
        /\ findRegVarResult(store, g, S_regtypev) = Some(S_ebx)

=============================================================================
